---- MODULE Spec2Model ----
(***************************************************************************)
(* Model of gaitalytics/features.py: the per-cycle feature calculators and *)
(* the framework that iterates a trial's cycles.                           *)
(*                                                                         *)
(* Python values are modelled as follows.                                  *)
(*   - an optional value (x | None) is a sequence: <<>> is None, <<x>> is  *)
(*     the value x;                                                        *)
(*   - the outcome of a call is a record [kind, value, error]: kind is     *)
(*     "return" (value holds the result) or "raise" (error holds the       *)
(*     exception: its Python type and which raise statement threw it);     *)
(*   - a pandas event table is [context, cycle_id, rows]: the two attrs    *)
(*     and the rows in table order, each row [context, label, time];       *)
(*   - times are integers (a fixed time unit);                             *)
(*   - a number is a fraction <<numerator, denominator>>: the temporal     *)
(*     features and the amplitude are floats of MantissaBits bits of       *)
(*     mantissa, the other statistics, positions and distances are exact;  *)
(*   - a Trial object is [events, data], and a per-cycle calculation runs  *)
(*     on the store of the objects it can reach.                           *)
(***************************************************************************)
EXTENDS Integers, Sequences, FiniteSets, TLC

VARIABLES
    op,            \* the operation that has been run ("init" before any)
    trial_events,  \* the cycle's event table (Trial.events): <<>> or <<table>>
    analysis,      \* the cycle's analysis data (Trial.get_data(ANALYSIS)): <<>> or <<array>>
    marker_data,   \* the cycle's marker trajectories and speed norms: <<>> or <<data>>
    out,           \* outcome of the operation
    trial_cycles,  \* calculate: trial.get_all_cycles(), an ordered mapping
    pc,            \* calculate: position in the method
    ci,            \* calculate: position of the outer loop (contexts)
    ki,            \* calculate: position of the inner loop (cycles)
    results,       \* calculate: local list `results`
    context_dim,   \* calculate: local list `context_dim`
    context_results, \* calculate: local list `context_results`
    cycle_dim,     \* calculate: local list `cycle_dim`
    created        \* the Trial objects created by the operation, oldest first

calcVars == <<trial_cycles, pc, ci, ki, results, context_dim, context_results, cycle_dim>>
inputVars == <<trial_events, analysis, marker_data>>
vars == <<op, inputVars, out, calcVars, created>>

(***************************************************************************)
(* Bounds of the model                                                     *)
(***************************************************************************)
MaxRows == 5       \* longest event table
MaxTime == 3       \* event times of a valid cycle range over 0..MaxTime
MaxCycleId == 1    \* cycle ids range over 0..MaxCycleId
MaxSamples == 3    \* most samples of a cycle's time axis
MaxValue == 2      \* samples range over 0..MaxValue
MantissaBits == 4  \* bits of mantissa of a floating-point number
MaxStride == 6     \* event times of a chronological cycle range over 0..MaxStride

(***************************************************************************)
(* Vocabulary                                                              *)
(***************************************************************************)
FOOT_STRIKE == "Foot Strike"
FOOT_OFF == "Foot Off"
OTHER_LABEL == "Event"
Labels == {FOOT_STRIKE, FOOT_OFF, OTHER_LABEL}
Contexts == {"Left", "Right"}
OtherContext(c) == IF c = "Left" THEN "Right" ELSE "Left"

None == <<>>
Some(x) == <<x>>

NoValue == <<>>
NoError == [type |-> "", at |-> ""]
Return(v) == [kind |-> "return", value |-> v, error |-> NoError]
Raise(type, at) == [kind |-> "raise", value |-> NoValue, error |-> [type |-> type, at |-> at]]
NotRun == [kind |-> "none", value |-> NoValue, error |-> NoError]

\* The three ValueErrors of get_event_times, told apart by their raise
\* statement, and the IndexError of numpy's values[i] on a too short array.
ErrNoEvents == Raise("ValueError", "Trial does not have events.")
ErrMissingEvents == Raise("ValueError", "Missing events in segment")
ErrEventSequence == Raise("ValueError", "Error events sequence")
ErrIndex == Raise("IndexError", "values[i]")

(***************************************************************************)
(* _CycleFeaturesCalculation.get_event_times                               *)
(***************************************************************************)
\* trial_events[COLUMN_CONTEXT] == curren_context (boolean mask: row order kept)
IpsiRows(rows, curren_context) ==
    SelectSeq(rows, LAMBDA r : r.context = curren_context)

\* trial_events[COLUMN_CONTEXT] != curren_context
ContraRows(rows, curren_context) ==
    SelectSeq(rows, LAMBDA r : r.context # curren_context)

\* frame[frame[COLUMN_LABEL] == label]
LabelRows(rows, label) ==
    SelectSeq(rows, LAMBDA r : r.label = label)

\* len(trial_events) < 3
TooFewRowsShort(rows) == Len(rows) < 2
TooFewRows(rows) == Len(rows) < 3

\* len(ipsi) != 3, then len(contra) != 2
BadCountsIpsiOnly(ipsi, contra) == Len(ipsi) # 3
BadCounts(ipsi, contra) == Len(ipsi) # 3 \/ Len(contra) # 2

\* frame[COLUMN_TIME].values[i], i counted from 0: the outcome of the indexing
TimeAt(rows, i) ==
    IF i + 1 <= Len(rows) THEN Return(rows[i + 1].time) ELSE ErrIndex

\* The five .values[i] reads in statement order; the first that fails raises.
ExtractTimes(ipsi, contra) ==
    LET contra_fs == LabelRows(contra, FOOT_STRIKE)
        contra_fo == LabelRows(contra, FOOT_OFF)
        ipsi_fs == LabelRows(ipsi, FOOT_STRIKE)
        ipsi_fo == LabelRows(ipsi, FOOT_OFF)
        ipsi_fs_time_start == TimeAt(ipsi_fs, 0)
        ipsi_fs_time_end == TimeAt(ipsi_fs, 1)
        ipsi_fo_time == TimeAt(ipsi_fo, 0)
        contra_fs_time == TimeAt(contra_fs, 0)
        contra_fo_time == TimeAt(contra_fo, 0)
        reads == <<ipsi_fs_time_start, ipsi_fs_time_end, ipsi_fo_time,
                   contra_fs_time, contra_fo_time>>
    IN  IF \E i \in 1..5 : reads[i].kind = "raise"
        THEN ErrIndex
        ELSE Return(<<ipsi_fs_time_start.value, contra_fo_time.value,
                      contra_fs_time.value, ipsi_fo_time.value,
                      ipsi_fs_time_end.value>>)

get_event_times(events) ==
    IF events = None THEN ErrNoEvents
    ELSE LET curren_context == events[1].context
             rows == events[1].rows
         IN  IF TooFewRows(rows) THEN ErrMissingEvents
             ELSE LET ipsi == IpsiRows(rows, curren_context)
                      contra == ContraRows(rows, curren_context)
                  IN  IF BadCounts(ipsi, contra) THEN ErrEventSequence
                      ELSE ExtractTimes(ipsi, contra)

(***************************************************************************)
(* Numbers.  A feature value is a fraction <<numerator, denominator>> of   *)
(* integers, so that a float division is exact in the model; a zero        *)
(* denominator is numpy's inf or nan (float64 division does not raise).    *)
(***************************************************************************)
Num(n) == <<n, 1>>
Div(a, b) == <<a[1] * b[2], a[2] * b[1]>>
Sub(a, b) == <<a[1] * b[2] - b[1] * a[2], a[2] * b[2]>>
Add(a, b) == <<a[1] * b[2] + b[1] * a[2], a[2] * b[2]>>
SameNumber(a, b) == a[2] # 0 /\ b[2] # 0 /\ a[1] * b[2] = b[1] * a[2]

(***************************************************************************)
(* A 1-D labelled array (xr.DataArray over the "feature" axis)             *)
(***************************************************************************)
FeatureArray(labels, data) == [feature |-> labels, data |-> data]

\* _create_result_from_dict: keys and values of the dict in insertion order.
\* A dict is modelled as the sequence of its <<key, value>> items.
create_result_from_dict(result_dict) ==
    FeatureArray([i \in 1..Len(result_dict) |-> result_dict[i][1]],
                 [i \in 1..Len(result_dict) |-> result_dict[i][2]])

(***************************************************************************)
(* Floating-point arithmetic.  The event times and the temporal features   *)
(* are binary floating-point numbers (float64 in the program): every       *)
(* operation gives the representable number nearest to the exact result,   *)
(* ties to the even mantissa.  The model keeps MantissaBits bits of        *)
(* mantissa (53 in float64) and no bound on the exponent.  A float is a    *)
(* fraction in lowest terms whose denominator is a power of 2.             *)
(***************************************************************************)
Abs(n) == IF n < 0 THEN 0 - n ELSE n

\* the numerator doubled until numerator / denominator >= 2^(MantissaBits - 1)
RECURSIVE ScaleUp(_, _)
ScaleUp(a, d) == IF a < 2^(MantissaBits - 1) * d THEN ScaleUp(2 * a, d) ELSE a

\* the denominator doubled until numerator / denominator < 2^MantissaBits
RECURSIVE ScaleDown(_, _)
ScaleDown(a, d) == IF a >= 2^MantissaBits * d THEN ScaleDown(a, 2 * d) ELSE d

RECURSIVE LowestTerms(_, _)
LowestTerms(n, d) ==
    IF n % 2 = 0 /\ d % 2 = 0 THEN LowestTerms(n \div 2, d \div 2) ELSE <<n, d>>

\* round to nearest, ties to even; inf and nan (zero denominator) stay, and so
\* does an integer of at most MantissaBits bits
RoundToFloat(q) ==
    IF q[2] = 0 THEN q
    ELSE IF q[1] = 0 THEN <<0, 1>>
    ELSE IF q[2] = 1 /\ Abs(q[1]) < 2^MantissaBits THEN q
    ELSE LET sign == IF (q[1] < 0) = (q[2] < 0) THEN 1 ELSE -1
             a == Abs(q[1])
             d == Abs(q[2])
             a_scaled == ScaleUp(a, d)
             d_scaled == ScaleDown(a, d)
             floor == a_scaled \div d_scaled
             rest == a_scaled - floor * d_scaled
             mantissa == IF 2 * rest > d_scaled
                            \/ (2 * rest = d_scaled /\ floor % 2 = 1)
                         THEN floor + 1 ELSE floor
         IN  LowestTerms(sign * mantissa * (d_scaled \div d), a_scaled \div a)

\* the float operators +, - and / of the program
FloatAdd(a, b) == RoundToFloat(Add(a, b))
FloatSub(a, b) == RoundToFloat(Sub(a, b))
FloatDiv(a, b) == RoundToFloat(Div(a, b))

\* a time read from the event table (an integer number of time units) as float
Float(n) == RoundToFloat(Num(n))

(***************************************************************************)
(* TemporalFeatures                                                        *)
(***************************************************************************)
calculate_supports_sign_flipped(contra_fo_time, contra_fs_time, ipsi_fo_time, end_time) ==
    LET double_support ==
            FloatDiv(FloatAdd(contra_fo_time, FloatAdd(ipsi_fo_time, contra_fs_time)),
                     end_time)
        single_support == FloatDiv(FloatSub(contra_fs_time, contra_fo_time), end_time)
    IN  <<(<<"double_support", double_support>>),
          (<<"single_support", single_support>>)>>
calculate_supports(contra_fo_time, contra_fs_time, ipsi_fo_time, end_time) ==
    LET double_support ==
            FloatDiv(FloatAdd(contra_fo_time, FloatSub(ipsi_fo_time, contra_fs_time)),
                     end_time)
        single_support == FloatDiv(FloatSub(contra_fs_time, contra_fo_time), end_time)
    IN  <<(<<"double_support", double_support>>),
          (<<"single_support", single_support>>)>>

\* 60 / (rel_event_times[4] / 2)
cadence_of_whole_stride(stride_time) == FloatDiv(Float(60), stride_time)
cadence(stride_time) == FloatDiv(Float(60), FloatDiv(stride_time, Float(2)))

\* TemporalFeatures._calculate on a trial whose event table is `events`.
\* rel_event_times[i] of the code is t[i + 1] here.
TemporalCalculate(events) ==
    IF events = None THEN ErrNoEvents
    ELSE LET rel_event_times == get_event_times(events)
         IN  IF rel_event_times.kind = "raise" THEN rel_event_times
             ELSE LET t == [i \in 1..5 |-> Float(rel_event_times.value[i])]
                      result_dict ==
                          calculate_supports(t[2], t[3], t[4], t[5]) \o
                          <<(<<"foot_off", FloatDiv(t[4], t[5])>>),
                            (<<"opposite_foot_off", FloatDiv(t[2], t[5])>>),
                            (<<"opposite_foot_contact", FloatDiv(t[3], t[5])>>),
                            (<<"stride_time", t[5]>>),
                            (<<"step_time", FloatSub(t[5], t[3])>>),
                            (<<"cadence", cadence(t[5])>>)>>
                  IN  Return(create_result_from_dict(result_dict))

(***************************************************************************)
(* Event tables the operations are run on                                  *)
(***************************************************************************)
Row(context, label, time) == [context |-> context, label |-> label, time |-> time]
Table(context, cycle_id, rows) ==
    [context |-> context, cycle_id |-> cycle_id, rows |-> rows]

Perms(n) == {p \in [1..n -> 1..n] : \A i, j \in 1..n : p[i] = p[j] => i = j}

\* The five events of a well-formed cycle in time order.
CycleRows(ctx, t0, t1, t2, t3, t4) ==
    <<Row(ctx, FOOT_STRIKE, t0), Row(OtherContext(ctx), FOOT_OFF, t1),
      Row(OtherContext(ctx), FOOT_STRIKE, t2), Row(ctx, FOOT_OFF, t3),
      Row(ctx, FOOT_STRIKE, t4)>>

\* Well-formed cycles: every choice of times with the three middle events
\* between the two ipsi foot-strikes, in every order of the rows.
CycleTimes ==
    {t \in [1..5 -> 0..MaxTime] : \A i \in 2..4 : t[1] <= t[i] /\ t[i] <= t[5]}

ValidTable(ctx, p, t) ==
    Table(ctx, 0, [i \in 1..5 |-> CycleRows(ctx, t[1], t[2], t[3], t[4], t[5])[p[i]]])

\* Tables of every shape: up to MaxRows rows of any context and label, the
\* rows in time order (row i is timed i - 1).
ShapeTable(ctx, n, cl) ==
    Table(ctx, 0, [i \in 1..n |-> Row(cl[i][1], cl[i][2], i - 1)])

IsEventInput(events) ==
    \/ events = None
    \/ \E ctx \in Contexts, p \in Perms(5), t \in CycleTimes :
            events = Some(ValidTable(ctx, p, t))
    \/ \E ctx \in Contexts, n \in 0..MaxRows :
            \E cl \in [1..n -> Contexts \X Labels] :
                events = Some(ShapeTable(ctx, n, cl))

(***************************************************************************)
(* Specification of the event-time extractor and the temporal calculator   *)
(***************************************************************************)
InitEvents ==
    /\ op = "init"
    /\ IsEventInput(trial_events)
    /\ analysis = None
    /\ marker_data = None
    /\ out = NotRun
    /\ trial_cycles = <<>>
    /\ pc = "idle"
    /\ ci = 0
    /\ ki = 0
    /\ results = <<>>
    /\ context_dim = <<>>
    /\ context_results = <<>>
    /\ cycle_dim = <<>>
    /\ created = <<>>

CallGetEventTimes ==
    /\ op = "init"
    /\ op' = "get_event_times"
    /\ out' = get_event_times(trial_events)
    /\ UNCHANGED <<inputVars, calcVars, created>>

CallTemporalCalculate ==
    /\ op = "init"
    /\ op' = "TemporalFeatures._calculate"
    /\ out' = TemporalCalculate(trial_events)
    /\ UNCHANGED <<inputVars, calcVars, created>>

NextEvents == CallGetEventTimes \/ CallTemporalCalculate

SpecEvents == InitEvents /\ [][NextEvents]_vars

(***************************************************************************)
(* Claims about get_event_times (checked under SpecEvents)                 *)
(***************************************************************************)
HasTable == trial_events # None
TheTable == trial_events[1]
RowIdx == 1..Len(TheTable.rows)
IpsiIdx == {i \in RowIdx : TheTable.rows[i].context = TheTable.context}
ContraIdx == RowIdx \ IpsiIdx
WithLabel(idx, label) == {i \in idx : TheTable.rows[i].label = label}
TimesOf(idx) == {TheTable.rows[i].time : i \in idx}
SetMin(S) == CHOOSE x \in S : \A y \in S : x <= y
SetMax(S) == CHOOSE x \in S : \A y \in S : y <= x

\* 2 ipsi foot-strikes + 1 ipsi foot-off, 1 contra foot-strike + 1 contra foot-off
RightLabels ==
    /\ Cardinality(WithLabel(IpsiIdx, FOOT_STRIKE)) = 2
    /\ Cardinality(WithLabel(IpsiIdx, FOOT_OFF)) = 1
    /\ Cardinality(WithLabel(ContraIdx, FOOT_STRIKE)) = 1
    /\ Cardinality(WithLabel(ContraIdx, FOOT_OFF)) = 1

\* A well-formed cycle: exactly the five events, the middle three timed
\* between the two ipsi foot-strikes.
WellFormedCycle ==
    /\ HasTable
    /\ Len(TheTable.rows) = 5
    /\ Cardinality(IpsiIdx) = 3
    /\ RightLabels
    /\ LET fs == TimesOf(WithLabel(IpsiIdx, FOOT_STRIKE))
       IN  \A i \in RowIdx : SetMin(fs) <= TheTable.rows[i].time
                             /\ TheTable.rows[i].time <= SetMax(fs)

\* C1: for a well-formed cycle, in every order of the rows, get_event_times
\* returns a 5-tuple whose first entry is the earlier ipsi foot-strike time and
\* whose last entry is the later one, so that t0 <= t1, t2, t3 <= t4.
C1_TupleBracketedByFootStrikes ==
    (op = "get_event_times" /\ WellFormedCycle) =>
        /\ out.kind = "return"
        /\ LET fs == TimesOf(WithLabel(IpsiIdx, FOOT_STRIKE))
           IN  /\ out.value[1] = SetMin(fs)
               /\ out.value[5] = SetMax(fs)
               /\ \A i \in 2..4 : out.value[1] <= out.value[i]
                                  /\ out.value[i] <= out.value[5]

\* C2: a table with 3 ipsi rows and 2 contra rows but the wrong labels is
\* rejected by the "Error events sequence" ValueError (the validation failure of
\* get_event_times), and no 5-tuple is returned for it.
C2_WrongLabelsAreSequenceError ==
    (/\ op = "get_event_times"
     /\ HasTable
     /\ Cardinality(IpsiIdx) = 3
     /\ Cardinality(ContraIdx) = 2
     /\ ~RightLabels) =>
        out.kind = "raise" /\ out.error = ErrEventSequence.error

\* C3: with at least 3 rows, get_event_times fails with the "Error events
\* sequence" ValueError if the table does not hold exactly 3 ipsi rows and
\* exactly 2 contra rows, and with no such error if it does.
C3_WrongCountsAreSequenceError ==
    (op = "get_event_times" /\ HasTable /\ Len(TheTable.rows) >= 3) =>
        ((out.kind = "raise" /\ out.error = ErrEventSequence.error)
            <=> ~(Cardinality(IpsiIdx) = 3 /\ Cardinality(ContraIdx) = 2))

C3_Witness ==
    /\ op = "get_event_times"
    /\ HasTable
    /\ Cardinality(IpsiIdx) = 2
    /\ Cardinality(ContraIdx) = 2
    /\ out.kind = "raise"
    /\ out.error = ErrEventSequence.error

\* C4: with the event table absent, or present with fewer than 3 rows,
\* get_event_times and TemporalFeatures._calculate fail with the missing-events
\* ValueError ("Trial does not have events." for an absent table, "Missing
\* events in segment" for a short one) and return nothing.
C4_MissingEventsError ==
    (op \in {"get_event_times", "TemporalFeatures._calculate"}) =>
        /\ ~HasTable => (out.kind = "raise" /\ out.error = ErrNoEvents.error)
        /\ (HasTable /\ Len(TheTable.rows) < 3) =>
               (out.kind = "raise" /\ out.error = ErrMissingEvents.error)

C4_Witness ==
    /\ op = "TemporalFeatures._calculate"
    /\ HasTable
    /\ Len(TheTable.rows) = 2
    /\ out.kind = "raise"
    /\ out.error = ErrMissingEvents.error

(***************************************************************************)
(* xarray: concatenation of labelled arrays along a new axis               *)
(*                                                                         *)
(* A (cycle x feature) array is [cycle, feature, data]: the two label      *)
(* sequences and data[i][j], the value at cycle position i and feature     *)
(* position j.  A (context x cycle x feature) array adds the context       *)
(* labels and one more level of data.                                      *)
(***************************************************************************)
NaN == <<0, 0>>

SeqToSet(seq) == {seq[i] : i \in 1..Len(seq)}
IndexOf(seq, x) == CHOOSE i \in 1..Len(seq) : seq[i] = x

RECURSIVE SortedSeq(_)
SortedSeq(S) ==
    IF S = {} THEN <<>>
    ELSE LET least == CHOOSE x \in S : \A y \in S : x <= y
         IN  <<least>> \o SortedSeq(S \ {least})

RECURSIVE AppendNew(_, _)
AppendNew(seq, more) ==
    IF more = <<>> THEN seq
    ELSE AppendNew(IF Head(more) \in SeqToSet(seq) THEN seq ELSE Append(seq, Head(more)),
                   Tail(more))

RECURSIVE Flatten(_)
Flatten(seqs) == IF seqs = <<>> THEN <<>> ELSE Head(seqs) \o Flatten(Tail(seqs))

\* xr.concat aligns its arguments on the axes they share with join="outer":
\* equal indexes are kept as they are; unequal ones are replaced by their
\* union (pd.Index.union), which is sorted.
JoinOuterUnsorted(indexes) == AppendNew(<<>>, Flatten(indexes))
JoinOuter(indexes) ==
    IF \A i \in 1..Len(indexes) : indexes[i] = indexes[1]
    THEN indexes[1]
    ELSE SortedSeq(UNION {SeqToSet(indexes[i]) : i \in 1..Len(indexes)})

\* Reindexing a (cycle x feature) array to the joined cycle index: rows are
\* looked up by label, a label the array lacks gives a row of NaN.
ReindexPositional(arr, cycle_index) ==
    [arr EXCEPT !.cycle = cycle_index,
                !.data = [i \in 1..Len(cycle_index) |->
                            IF i <= Len(arr.data) THEN arr.data[i]
                            ELSE [j \in 1..Len(arr.feature) |-> NaN]]]
Reindex(arr, cycle_index) ==
    [arr EXCEPT !.cycle = cycle_index,
                !.data = [i \in 1..Len(cycle_index) |->
                            IF cycle_index[i] \in SeqToSet(arr.cycle)
                            THEN arr.data[IndexOf(arr.cycle, cycle_index[i])]
                            ELSE [j \in 1..Len(arr.feature) |-> NaN]]]

\* xr.concat(context_results, pd.Index(cycle_dim, name="cycle")): the new axis
\* comes first.  The per-cycle arrays of one calculator carry the same feature
\* index, which the alignment therefore keeps.
ConcatCycles(arrays, index) ==
    [cycle |-> index,
     feature |-> arrays[1].feature,
     data |-> [i \in 1..Len(arrays) |-> arrays[i].data]]

\* xr.concat(results, pd.Index(context_dim, name="context"))
ConcatContexts(arrays, index) ==
    LET joined == JoinOuter([i \in 1..Len(arrays) |-> arrays[i].cycle])
    IN  [context |-> index,
         cycle |-> joined,
         feature |-> arrays[1].feature,
         data |-> [i \in 1..Len(arrays) |-> Reindex(arrays[i], joined).data]]

(***************************************************************************)
(* _CycleFeaturesCalculation.calculate, with TemporalFeatures._calculate   *)
(* as the per-cycle calculation                                            *)
(***************************************************************************)
\* feature = self._calculate(cycle)
CycleOutcomeTolerant(cycle) ==
    LET r == TemporalCalculate(cycle.events)
    IN  IF r.kind = "raise"
        THEN Return(FeatureArray(<<"double_support", "single_support", "foot_off",
                                   "opposite_foot_off", "opposite_foot_contact",
                                   "stride_time", "step_time", "cadence">>,
                                 [j \in 1..8 |-> NaN]))
        ELSE r
CycleOutcome(cycle) == TemporalCalculate(cycle.events)

\* trial.get_all_cycles(): the items of the outer and the inner mapping
ContextItem(c) == trial_cycles[c]
CycleItem(c, k) == trial_cycles[c].cycles[k]

\* Entry of calculate: results = [], context_dim = []
CalcStart ==
    /\ pc = "idle"
    /\ op = "init"
    /\ op' = "calculate"
    /\ results' = <<>>
    /\ context_dim' = <<>>
    /\ ci' = 1
    /\ pc' = "contexts"
    /\ UNCHANGED <<inputVars, out, trial_cycles, ki, context_results, cycle_dim, created>>

\* Outer loop header: the next context, context_results = [], cycle_dim = []
CalcContextBegin ==
    /\ pc = "contexts"
    /\ ci <= Len(trial_cycles)
    /\ context_results' = <<>>
    /\ cycle_dim' = <<>>
    /\ ki' = 1
    /\ pc' = "cycles"
    /\ UNCHANGED <<op, inputVars, out, trial_cycles, ci, results, context_dim, created>>

\* Inner loop body when _calculate returns: append the feature and the cycle id
CalcCycle ==
    /\ pc = "cycles"
    /\ ki <= Len(ContextItem(ci).cycles)
    /\ LET feature == CycleOutcome(CycleItem(ci, ki))
       IN  /\ feature.kind = "return"
           /\ context_results' = Append(context_results, feature.value)
    /\ cycle_dim' = Append(cycle_dim, CycleItem(ci, ki).cycle_id)
    /\ ki' = ki + 1
    /\ UNCHANGED <<op, inputVars, out, trial_cycles, pc, ci, results, context_dim, created>>

\* Inner loop body when _calculate raises: nothing catches the exception, it
\* leaves calculate and the locals are gone
CalcCycleRaises ==
    /\ pc = "cycles"
    /\ ki <= Len(ContextItem(ci).cycles)
    /\ LET feature == CycleOutcome(CycleItem(ci, ki))
       IN  /\ feature.kind = "raise"
           /\ out' = feature
    /\ pc' = "raised"
    /\ results' = <<>>
    /\ context_dim' = <<>>
    /\ context_results' = <<>>
    /\ cycle_dim' = <<>>
    /\ UNCHANGED <<op, inputVars, trial_cycles, ci, ki, created>>

\* After the inner loop: context_dim.append(context), concatenate the cycles
CalcContextEnd ==
    /\ pc = "cycles"
    /\ ki > Len(ContextItem(ci).cycles)
    /\ context_dim' = Append(context_dim, ContextItem(ci).context)
    /\ results' = Append(results, ConcatCycles(context_results, cycle_dim))
    /\ ci' = ci + 1
    /\ pc' = "contexts"
    /\ UNCHANGED <<op, inputVars, out, trial_cycles, ki, context_results, cycle_dim, created>>

\* After the outer loop: concatenate the contexts and return
CalcReturn ==
    /\ pc = "contexts"
    /\ ci > Len(trial_cycles)
    /\ out' = Return(ConcatContexts(results, context_dim))
    /\ pc' = "done"
    /\ UNCHANGED <<op, inputVars, trial_cycles, ci, ki, results, context_dim,
                   context_results, cycle_dim, created>>

(***************************************************************************)
(* Trials the framework is run on                                          *)
(***************************************************************************)
CycleKinds == {"valid", "malformed", "absent"}

\* The event table of cycle k of context ctx: a well-formed cycle whose times
\* depend on ctx and k, a table of 2 ipsi + 2 contra rows, or no table.
CycleEvents(ctx, k, kind) ==
    LET rows == IF ctx = "Left" THEN CycleRows(ctx, 0, 1, 2, 3, 4 + k)
                ELSE CycleRows(ctx, 0, 1, 3, 4, 5 + k)
    IN  CASE kind = "valid" -> Some(Table(ctx, k, rows))
          [] kind = "malformed" -> Some(Table(ctx, k, SubSeq(rows, 2, 5)))
          [] kind = "absent" -> None

Injective(seq) == \A i, j \in 1..Len(seq) : seq[i] = seq[j] => i = j

\* Insertion orders of a cycle mapping: distinct ids of 0..MaxCycleId
IdSeqs ==
    {ids \in UNION {[1..n -> 0..MaxCycleId] : n \in 1..(MaxCycleId + 1)} : Injective(ids)}

CycleMappings(ctx) ==
    UNION { { [i \in 1..Len(ids) |->
                 [cycle_id |-> ids[i], events |-> CycleEvents(ctx, ids[i], kinds[i])]] :
              kinds \in [1..Len(ids) -> CycleKinds] } :
            ids \in IdSeqs }

ContextCycles(ctx, cycles) == [context |-> ctx, cycles |-> cycles]

\* One context, or both contexts in either order
IsTrialCycles(tc) ==
    \/ \E ctx \in Contexts : \E m \in CycleMappings(ctx) :
            tc = <<ContextCycles(ctx, m)>>
    \/ \E ctx \in Contexts :
            \E m1 \in CycleMappings(ctx), m2 \in CycleMappings(OtherContext(ctx)) :
                tc = <<ContextCycles(ctx, m1), ContextCycles(OtherContext(ctx), m2)>>

InitCalc ==
    /\ op = "init"
    /\ trial_events = None
    /\ analysis = None
    /\ marker_data = None
    /\ out = NotRun
    /\ IsTrialCycles(trial_cycles)
    /\ pc = "idle"
    /\ ci = 0
    /\ ki = 0
    /\ results = <<>>
    /\ context_dim = <<>>
    /\ context_results = <<>>
    /\ cycle_dim = <<>>
    /\ created = <<>>

NextCalc ==
    \/ CalcStart
    \/ CalcContextBegin
    \/ CalcCycle
    \/ CalcCycleRaises
    \/ CalcContextEnd
    \/ CalcReturn

SpecCalc == InitCalc /\ [][NextCalc]_vars

(***************************************************************************)
(* Claims about calculate (checked under SpecCalc)                         *)
(***************************************************************************)
InputContexts == [c \in 1..Len(trial_cycles) |-> trial_cycles[c].context]
InputCycleIds(c) ==
    [k \in 1..Len(trial_cycles[c].cycles) |-> trial_cycles[c].cycles[k].cycle_id]
AllCycleIds == UNION {SeqToSet(InputCycleIds(c)) : c \in 1..Len(trial_cycles)}
SameCycleIdsEverywhere ==
    \A c \in 1..Len(trial_cycles) : InputCycleIds(c) = InputCycleIds(1)
IsAscending(seq) == \A i, j \in 1..Len(seq) : i < j => seq[i] < seq[j]

\* The entries of seq that are in S, in the order of seq
Restrict(seq, S) == SelectSeq(seq, LAMBDA x : x \in S)

C5_WitnessInsertionOrder ==
    /\ pc = "done"
    /\ Len(trial_cycles) = 2
    /\ SameCycleIdsEverywhere
    /\ ~IsAscending(InputCycleIds(1))
    /\ out.value.cycle = InputCycleIds(1)

\* The cycles of the input whose per-cycle calculation fails, as
\* <<context position, cycle position>>, and the first of them in iteration order
FailingCycles ==
    {<<c, k>> \in (1..Len(trial_cycles)) \X (1..(MaxCycleId + 2)) :
        /\ k <= Len(trial_cycles[c].cycles)
        /\ TemporalCalculate(trial_cycles[c].cycles[k].events).kind = "raise"}
FirstFailing ==
    LET failing == FailingCycles
    IN  CHOOSE f \in failing :
            \A g \in failing : f[1] < g[1] \/ (f[1] = g[1] /\ f[2] <= g[2])

\* C6: if the per-cycle calculation fails for some cycle, calculate ends by
\* raising that error (the one of the first failing cycle in iteration order)
\* and returns no result; it returns only when no cycle fails.
C6_OneFailureFailsTheTrial ==
    /\ pc = "done" => (FailingCycles = {} /\ out.kind = "return")
    /\ pc = "raised" =>
          /\ FailingCycles # {}
          /\ out.kind = "raise"
          /\ out.value = NoValue
          /\ LET first == FirstFailing
             IN  out.error = TemporalCalculate(CycleItem(first[1], first[2]).events).error
    /\ (pc \notin {"done", "raised"}) => out = NotRun

\* a cycle was computed before the failing one, and nothing of it is returned
C6_Witness ==
    /\ pc = "raised"
    /\ FirstFailing # <<1, 1>>
    /\ out.kind = "raise"
    /\ out.value = NoValue

\* C7: in the result, the values at the labels (context c, cycle k) are
\* exactly the per-cycle result of the cycle k of context c, whatever the
\* position of c and k in the iteration and whatever the other cycles are.
C7_ValuesAtLabelsArePerCycleResults ==
    pc = "done" =>
        \A c \in 1..Len(trial_cycles) : \A k \in 1..Len(trial_cycles[c].cycles) :
            LET own == TemporalCalculate(CycleItem(c, k).events).value
                ctx == IndexOf(out.value.context, ContextItem(c).context)
                cyc == IndexOf(out.value.cycle, CycleItem(c, k).cycle_id)
            IN  /\ ContextItem(c).context \in SeqToSet(out.value.context)
                /\ CycleItem(c, k).cycle_id \in SeqToSet(out.value.cycle)
                /\ out.value.feature = own.feature
                /\ out.value.data[ctx][cyc] = own.data

\* two contexts hold the same cycle id at different positions of their mappings
C7_Witness ==
    /\ pc = "done"
    /\ Len(trial_cycles) = 2
    /\ \E k1 \in 1..Len(trial_cycles[1].cycles), k2 \in 1..Len(trial_cycles[2].cycles) :
          /\ k1 # k2
          /\ CycleItem(1, k1).cycle_id = CycleItem(2, k2).cycle_id
          /\ out.value.data[1][IndexOf(out.value.cycle, CycleItem(1, k1).cycle_id)]
                = TemporalCalculate(CycleItem(1, k1).events).value.data

(***************************************************************************)
(* TimeSeriesFeatures                                                      *)
(*                                                                         *)
(* The analysis data of a cycle is [context, channel, time, data]: the     *)
(* context attr, the channel labels, the sample times and data[c][t], the  *)
(* sample of channel position c at time position t (dims channel, time).   *)
(* A (feature x channel) array is [feature, channel, data] with            *)
(* data[f][c] (dims feature, channel: xr.concat puts the new axis first).  *)
(***************************************************************************)
FeatureNames == <<"min", "max", "mean", "median", "std", "amplitude">>

\* The square root of a fraction, kept symbolic: <<n, d, 2>> is sqrt(n / d)
Sqrt(q) == <<q[1], q[2], 2>>

RECURSIVE SumSeq(_)
SumSeq(xs) == IF xs = <<>> THEN 0 ELSE Head(xs) + SumSeq(Tail(xs))

MinSeq(xs) == CHOOSE x \in SeqToSet(xs) : \A y \in SeqToSet(xs) : x <= y
MaxSeq(xs) == CHOOSE x \in SeqToSet(xs) : \A y \in SeqToSet(xs) : y <= x

RemoveAt(xs, i) == SubSeq(xs, 1, i - 1) \o SubSeq(xs, i + 1, Len(xs))

RECURSIVE SortSamples(_)
SortSamples(xs) ==
    IF xs = <<>> THEN <<>>
    ELSE LET i == CHOOSE i \in 1..Len(xs) : xs[i] = MinSeq(xs)
         IN  <<xs[i]>> \o SortSamples(RemoveAt(xs, i))

Mean(xs) == <<SumSeq(xs), Len(xs)>>

\* numpy median: the middle sample, or the mean of the two middle samples
Median(xs) ==
    LET sorted == SortSamples(xs)
        n == Len(xs)
    IN  IF n % 2 = 1 THEN Num(sorted[(n + 1) \div 2])
        ELSE <<sorted[n \div 2] + sorted[(n \div 2) + 1], 2>>

\* population standard deviation (ddof = 0): sqrt(sum((x - mean)^2) / n)
Std(xs) ==
    LET n == Len(xs)
        squares == SumSeq([i \in 1..n |-> xs[i] * xs[i]])
    IN  Sqrt(<<n * squares - SumSeq(xs) * SumSeq(xs), n * n>>)

\* TimeSeriesFeatures._calculate_features
\* amplitude_feat = max_feat - min_feat
AmplitudeIsMax(max_feat, min_feat) == max_feat
Amplitude(max_feat, min_feat) == FloatSub(max_feat, min_feat)

calculate_features(markers) ==
    LET channels == 1..Len(markers.channel)
        min_feat == [c \in channels |-> Num(MinSeq(markers.data[c]))]
        max_feat == [c \in channels |-> Num(MaxSeq(markers.data[c]))]
        mean_feat == [c \in channels |-> Mean(markers.data[c])]
        median_feat == [c \in channels |-> Median(markers.data[c])]
        std_feat == [c \in channels |-> Std(markers.data[c])]
        amplitude_feat == [c \in channels |-> Amplitude(max_feat[c], min_feat[c])]
    IN  [feature |-> FeatureNames,
         channel |-> markers.channel,
         data |-> <<min_feat, max_feat, mean_feat, median_feat, std_feat,
                    amplitude_feat>>]

\* np_data.reshape(shape[1] * shape[0], order="C"): the last axis runs fastest
ReshapeF(np_data, n0, n1) ==
    [i \in 1..(n1 * n0) |-> np_data[((i - 1) % n0) + 1][((i - 1) \div n0) + 1]]
ReshapeC(np_data, n0, n1) ==
    [i \in 1..(n1 * n0) |-> np_data[((i - 1) \div n1) + 1][((i - 1) % n1) + 1]]

\* the loops "for f in feature: for c in channel: new_labels.append(f"{c}_{f}")"
NewLabels(feature, channel) ==
    Flatten([f \in 1..Len(feature) |->
                [c \in 1..Len(channel) |-> channel[c] \o "_" \o feature[f]]])

\* _CycleFeaturesCalculation._flatten_features
flatten_features(features) ==
    LET np_data == features.data
        rs_data == ReshapeC(np_data, Len(np_data), Len(np_data[1]))
    IN  FeatureArray(NewLabels(features.feature, features.channel), rs_data)

\* TimeSeriesFeatures._calculate on a trial whose analysis data is `data`
TimeSeriesCalculate(data) ==
    Return(flatten_features(calculate_features(data[1])))

(***************************************************************************)
(* Analysis data the series calculators are run on                         *)
(***************************************************************************)
ChannelLists == {<<"a">>, <<"a_min">>, <<"a", "a_min">>, <<"a_min", "a">>}

\* n samples, one every 6 time units, of every channel
Analysis(ctx, channels, n, data) ==
    [context |-> ctx, channel |-> channels,
     time |-> [i \in 1..n |-> 6 * (i - 1)], data |-> data]

IsAnalysisInput(a, ctx) ==
    \E channels \in ChannelLists, n \in 1..MaxSamples :
        \E data \in [1..Len(channels) -> [1..n -> 0..MaxValue]] :
            a = Some(Analysis(ctx, channels, n, data))

InitSeries ==
    /\ op = "init"
    /\ trial_events = None
    /\ \E ctx \in Contexts : IsAnalysisInput(analysis, ctx)
    /\ marker_data = None
    /\ out = NotRun
    /\ trial_cycles = <<>>
    /\ pc = "idle"
    /\ ci = 0
    /\ ki = 0
    /\ results = <<>>
    /\ context_dim = <<>>
    /\ context_results = <<>>
    /\ cycle_dim = <<>>
    /\ created = <<>>

CallTimeSeriesCalculate ==
    /\ op = "init"
    /\ analysis # None
    /\ op' = "TimeSeriesFeatures._calculate"
    /\ out' = TimeSeriesCalculate(analysis)
    /\ UNCHANGED <<inputVars, calcVars, created>>

NextSeries == CallTimeSeriesCalculate

SpecSeries == InitSeries /\ [][NextSeries]_vars

(***************************************************************************)
(* Claims about _flatten_features (checked under SpecSeries)               *)
(***************************************************************************)
\* C8: the flattened result of F features and C channels has F * C entries
\* with pairwise distinct labels, listed feature-major (features outer,
\* channels inner); the entry at feature f, channel c is labelled
\* "{channel}_{feature}" and holds the input value of feature f for channel c.
C8_FlattenIsFeatureMajorBijection ==
    (op = "TimeSeriesFeatures._calculate") =>
        LET features == calculate_features(analysis[1])
            F == Len(features.feature)
            C == Len(features.channel)
            flat == out.value
        IN  /\ out.kind = "return"
            /\ Len(flat.feature) = F * C
            /\ Len(flat.data) = F * C
            /\ \A i, j \in 1..(F * C) : flat.feature[i] = flat.feature[j] => i = j
            /\ \A f \in 1..F : \A c \in 1..C :
                  /\ flat.feature[(f - 1) * C + c]
                        = features.channel[c] \o "_" \o features.feature[f]
                  /\ flat.data[(f - 1) * C + c] = features.data[f][c]
            /\ \A c \in 1..C :
                  /\ flat.data[IndexOf(flat.feature, features.channel[c] \o "_min")]
                        = Num(MinSeq(analysis[1].data[c]))
                  /\ flat.data[IndexOf(flat.feature, features.channel[c] \o "_max")]
                        = Num(MaxSeq(analysis[1].data[c]))

\* two channels whose values differ in some feature
C8_Witness ==
    /\ op = "TimeSeriesFeatures._calculate"
    /\ out.kind = "return"
    /\ Len(analysis[1].channel) = 2
    /\ Len(out.value.feature) = 12
    /\ out.value.data[1] # out.value.data[2]
    /\ out.value.data[3] # out.value.data[1]

(***************************************************************************)
(* PhaseTimeSeriesFeatures                                                 *)
(*                                                                         *)
(* Times are integers in units of a third of 1e-4 s, so that rounding to 4 *)
(* decimals is rounding to the nearest multiple of 3 and never a tie.      *)
(***************************************************************************)
\* round(t, 4)
Round4Down(t) == 3 * (t \div 3)
Round4(t) == 3 * ((t + 1) \div 3)

\* data.sel(time=slice(lo, hi)): the samples timed lo <= t <= hi (label based,
\* both ends included), of every channel
SelTimeSlice(data, lo, hi) ==
    LET keep == {i \in 1..Len(data.time) : lo <= data.time[i] /\ data.time[i] <= hi}
        kept == SortedSeq(keep)
    IN  [data EXCEPT !.time = [i \in 1..Len(kept) |-> data.time[kept[i]]],
                     !.data = [c \in 1..Len(data.channel) |->
                                  [i \in 1..Len(kept) |-> data.data[c][kept[i]]]]]

\* model.Trial: an event table (or None) and a dict of data categories, kept
\* as the sequence of its items [category, array] in insertion order
ANALYSIS == "analysis"
MARKERS == "markers"
DataItem(category, array) == [category |-> category, array |-> array]

\* model.Trial(): a new trial with no events and no data
EmptyTrial == [events |-> None, data |-> <<>>]

\* Trial.get_data(category)
get_data(trial, category) ==
    trial.data[CHOOSE i \in 1..Len(trial.data) : trial.data[i].category = category].array

\* Trial.add_data(category, data) on the object `trial`: the value of the
\* object after the call
add_data(trial, category, data) ==
    IF \E i \in 1..Len(trial.data) : trial.data[i].category = category
    THEN [trial EXCEPT !.data =
              [i \in 1..Len(trial.data) |->
                  IF trial.data[i].category = category
                  THEN DataItem(category, data) ELSE trial.data[i]]]
    ELSE [trial EXCEPT !.data = Append(@, DataItem(category, data))]

\* The objects a per-cycle calculation can reach: the trial it is given
\* (reference 0) and the trials it has created (references 1, 2, ... in the
\* order of creation).
Store(trial) == [trial |-> trial, created |-> <<>>]
Deref(store, ref) == IF ref = 0 THEN store.trial ELSE store.created[ref]
Update(store, ref, object) ==
    IF ref = 0 THEN [store EXCEPT !.trial = object]
    ELSE [store EXCEPT !.created[ref] = object]

\* phase_trial = model.Trial(): the name is bound to the new object
phase_trial_is_trial(trial, new_trial) == trial
phase_trial_is_new(trial, new_trial) == new_trial

\* the loop of _create_phase_trial from item i on: add the slice of every data
\* category of `trial` to `phase_trial`
RECURSIVE AddSlices(_, _, _, _, _, _)
AddSlices(store, trial, phase_trial, lo, hi, i) ==
    IF i > Len(Deref(store, trial).data) THEN store
    ELSE LET item == Deref(store, trial).data[i]
             sliced == SelTimeSlice(item.array, lo, hi)
             added == add_data(Deref(store, phase_trial), item.category, sliced)
         IN  AddSlices(Update(store, phase_trial, added), trial, phase_trial, lo, hi, i + 1)

\* PhaseTimeSeriesFeatures._create_phase_trial(trial, slice(lo, hi)): the
\* store after the call and the reference it returns
create_phase_trial(store, trial, lo, hi) ==
    LET allocated == [store EXCEPT !.created = Append(@, EmptyTrial)]
        phase_trial == phase_trial_is_new(trial, Len(allocated.created))
    IN  [store |-> AddSlices(allocated, trial, phase_trial, lo, hi, 1),
         ref |-> phase_trial]

\* DataArray.assign_coords(feature=labels): returns a new array, the array it
\* is called on keeps its labels
assign_coords(array, labels) == [array EXCEPT !.feature = labels]

SwingLabels(array) == [i \in 1..Len(array.feature) |-> array.feature[i] \o "_swing"]

\* xr.concat([stand_features, swing_features], dim="feature")
ConcatFeature(a, b) == FeatureArray(a.feature \o b.feature, a.data \o b.data)

\* PhaseTimeSeriesFeatures._calculate on the trial of `store`: its outcome and
\* the store after it
PhaseCalculate(store) ==
    LET trial == 0
        event_table == Deref(store, trial).events
    IN  IF event_table = None
        THEN [outcome |-> Raise("AttributeError", "event_table.loc"), store |-> store]
        ELSE
        LET analysis_data == get_data(Deref(store, trial), ANALYSIS)
            context == analysis_data.context
            event_ipsi == SelectSeq(event_table[1].rows, LAMBDA r : r.context = context)
            event_ipsi_fo == LabelRows(event_ipsi, FOOT_OFF)
            fo_read == TimeAt(event_ipsi_fo, 0)
        IN  IF fo_read.kind = "raise" THEN [outcome |-> fo_read, store |-> store]
            ELSE
            LET fo_time == Round4(fo_read.value)
                start_time == analysis_data.time[1]
                end_time == analysis_data.time[Len(analysis_data.time)]
                stand_trial == create_phase_trial(store, trial, start_time, fo_time)
                swing_trial == create_phase_trial(stand_trial.store, trial, fo_time, end_time)
                after == swing_trial.store
                stand_features ==
                    TimeSeriesCalculate(
                        Some(get_data(Deref(after, stand_trial.ref), ANALYSIS))).value
                \* the two assign_coords results are bound to no name
                stand_assigned ==
                    assign_coords(stand_features, SwingLabels(stand_features))
                swing_features ==
                    TimeSeriesCalculate(
                        Some(get_data(Deref(after, swing_trial.ref), ANALYSIS))).value
                swing_assigned ==
                    assign_coords(swing_features, SwingLabels(swing_features))
            IN  [outcome |-> Return(ConcatFeature(stand_features, swing_features)),
                 store |-> after]

\* The marker data of a cycle for the phase calculator: one channel sampled
\* twice as often as the analysis data, over the same time span
MarkerSeries(ctx, n) ==
    [context |-> ctx, channel |-> <<"m">>,
     time |-> [i \in 1..(2 * n - 1) |-> 3 * (i - 1)],
     data |-> <<[i \in 1..(2 * n - 1) |-> i]>>]

\* A cycle for the phase calculator: analysis data from the cycle start (time
\* 0) to its end, marker data over the same span, and the five events of the
\* cycle with the ipsi foot-off at any time `fo` of the cycle
IsPhaseInput(events, data, markers) ==
    \E ctx \in Contexts :
        /\ IsAnalysisInput(data, ctx)
        /\ markers = Some(MarkerSeries(ctx, Len(data[1].time)))
        /\ LET end_time == data[1].time[Len(data[1].time)]
           IN  \E fo \in 0..end_time :
                   events = Some(Table(ctx, 0, CycleRows(ctx, 0, 0, end_time, fo, end_time)))

\* the trial of the cycle: its event table and its two data categories
CycleTrial(events, data, markers) ==
    [events |-> events,
     data |-> <<DataItem(ANALYSIS, data[1]), DataItem(MARKERS, markers[1])>>]

InitPhase ==
    /\ op = "init"
    /\ IsPhaseInput(trial_events, analysis, marker_data)
    /\ out = NotRun
    /\ trial_cycles = <<>>
    /\ pc = "idle"
    /\ ci = 0
    /\ ki = 0
    /\ results = <<>>
    /\ context_dim = <<>>
    /\ context_results = <<>>
    /\ cycle_dim = <<>>
    /\ created = <<>>

\* _calculate(trial): the outcome, the trials it created, and the trial it
\* was given as the call leaves it
CallPhaseCalculate ==
    /\ op = "init"
    /\ op' = "PhaseTimeSeriesFeatures._calculate"
    /\ LET run == PhaseCalculate(Store(CycleTrial(trial_events, analysis, marker_data)))
       IN  /\ out' = run.outcome
           /\ created' = run.store.created
           /\ trial_events' = run.store.trial.events
           /\ analysis' = Some(get_data(run.store.trial, ANALYSIS))
           /\ marker_data' = Some(get_data(run.store.trial, MARKERS))
    /\ UNCHANGED calcVars

NextPhase == CallPhaseCalculate

SpecPhase == InitPhase /\ [][NextPhase]_vars

(***************************************************************************)
(* Claims about PhaseTimeSeriesFeatures (checked under SpecPhase)          *)
(***************************************************************************)
\* C9: every feature label of the per-cycle result of PhaseTimeSeriesFeatures,
\* of the stance and of the swing feature set, has the form
\* "{channel}_{feature}_swing".
C9_AllLabelsCarrySwingSuffix ==
    (op = "PhaseTimeSeriesFeatures._calculate" /\ out.kind = "return") =>
        \A i \in 1..Len(out.value.feature) :
            out.value.feature[i] \in
                {analysis[1].channel[c] \o "_" \o FeatureNames[f] \o "_swing" :
                    c \in 1..Len(analysis[1].channel), f \in 1..Len(FeatureNames)}

(***************************************************************************)
(* SpatialFeatures: minimal toe clearance                                  *)
(*                                                                         *)
(* The marker data of a cycle is [time, meta_2, meta_5, heel, speed_2,     *)
(* speed_5]: the sample times, the vertical (z) trajectories of the ipsi   *)
(* 2nd and 5th metatarsal and heel markers, and the speed norms that       *)
(* linalg.calculate_speed_norm gives for the two metatarsal markers over   *)
(* the swing window, one per sample of the window.  Positions are counted  *)
(* from 1.                                                                 *)
(***************************************************************************)
Geq(a, b) == a[1] * b[2] >= b[1] * a[2]

\* the index that _find_mtc_index returns: <<>> for np.NaN, <<i>> for i
NaNIndex == <<>>

\* math.find_local_minimas: the positions of the samples lower than both
\* their neighbours, in ascending order
find_local_minimas(z) ==
    SortedSeq({i \in 2..(Len(z) - 1) : z[i] < z[i - 1] /\ z[i] < z[i + 1]})

\* min(mtc_i, key=...): the first position of mtc_i with the least z
MinByKey(mtc_i, z) ==
    mtc_i[CHOOSE k \in 1..Len(mtc_i) :
            /\ \A j \in 1..Len(mtc_i) : z[mtc_i[k]] <= z[mtc_i[j]]
            /\ \A j \in 1..(k - 1) : z[mtc_i[j]] # z[mtc_i[k]]]

\* SpatialFeatures._find_mtc_index
find_mtc_index(toe_z, heel_z, toes_vel, toes_vel_up_quart) ==
    LET minimas == find_local_minimas(toe_z)
        fast == SelectSeq(minimas, LAMBDA i : Geq(toes_vel[i], toes_vel_up_quart))
        mtc_i == SelectSeq(fast, LAMBDA i : toe_z[i] <= heel_z[i])
    IN  IF mtc_i = <<>> THEN NaNIndex ELSE <<MinByKey(mtc_i, toe_z)>>

\* min(a, b) of the two markers' values: b if b < a, else a
MinOfBothFirst(a, b) == a
MinOfBoth(a, b) == IF b < a THEN b ELSE a

\* positions of the samples of the window event_times[3] <= t <= event_times[4]
SwingWindow(time, lo, hi) ==
    SortedSeq({i \in 1..Len(time) : lo <= time[i] /\ time[i] <= hi})

\* SpatialFeatures._calculate_minimal_toe_clearance
calculate_minimal_toe_clearance(events, md) ==
    LET event_times == get_event_times(events)
    IN  IF event_times.kind = "raise" THEN event_times
        ELSE
        LET w == SwingWindow(md.time, event_times.value[4], event_times.value[5])
            ipsi_heel == [i \in 1..Len(w) |-> md.heel[w[i]]]
            ipsi_meta_2 == [i \in 1..Len(w) |-> md.meta_2[w[i]]]
            ipsi_meta_5 == [i \in 1..Len(w) |-> md.meta_5[w[i]]]
            \* (speed_2 + speed_5) / 2, sample by sample
            toes_vel == [i \in 1..Len(w) |-> <<md.speed_2[i] + md.speed_5[i], 2>>]
            \* np.quantile(toes_vel, .5): the median, computed on the numerators
            toes_vel_up_quart ==
                Div(Median([i \in 1..Len(w) |-> md.speed_2[i] + md.speed_5[i]]), Num(2))
            mtc2_i == find_mtc_index(ipsi_meta_2, ipsi_heel, toes_vel, toes_vel_up_quart)
            mtc5_i == find_mtc_index(ipsi_meta_5, ipsi_heel, toes_vel, toes_vel_up_quart)
        IN  IF mtc2_i = NaNIndex /\ mtc5_i = NaNIndex THEN Return(NaN)
            ELSE IF mtc2_i = NaNIndex THEN Return(Num(ipsi_meta_5[mtc5_i[1]]))
            ELSE IF mtc5_i = NaNIndex THEN Return(Num(ipsi_meta_2[mtc2_i[1]]))
            ELSE Return(Num(MinOfBoth(ipsi_meta_2[mtc2_i[1]], ipsi_meta_5[mtc5_i[1]])))

(***************************************************************************)
(* Marker data the toe clearance is run on: cycles of 5 samples with the   *)
(* ipsi foot-off at the first or the second sample.  The samples 2 and 4   *)
(* are the candidate minima of the markers; `top` is above every other     *)
(* height.                                                                 *)
(***************************************************************************)
IsMarkerInput(events, md) ==
    \E ctx \in Contexts, fo \in {0, 6} :
      /\ events = Some(Table(ctx, 0, CycleRows(ctx, 0, 0, fo, fo, 24)))
      /\ \E e2, a2, b2, a5, b5, h \in 0..MaxValue :
           \E speed_2 \in [1..(5 - fo \div 6) -> 0..1],
              speed_5 \in {[i \in 1..(5 - fo \div 6) |-> 0],
                           [i \in 1..(5 - fo \div 6) |-> i % 2]} :
             LET top == MaxValue + 1
             IN  md = Some([time |-> <<0, 6, 12, 18, 24>>,
                            meta_2 |-> <<e2, a2, top, b2, top>>,
                            meta_5 |-> <<top, a5, top, b5, top>>,
                            heel |-> <<h, h, h, h, h>>,
                            speed_2 |-> speed_2,
                            speed_5 |-> speed_5])

InitClearance ==
    /\ op = "init"
    /\ IsMarkerInput(trial_events, marker_data)
    /\ analysis = None
    /\ out = NotRun
    /\ trial_cycles = <<>>
    /\ pc = "idle"
    /\ ci = 0
    /\ ki = 0
    /\ results = <<>>
    /\ context_dim = <<>>
    /\ context_results = <<>>
    /\ cycle_dim = <<>>
    /\ created = <<>>

CallMinimalToeClearance ==
    /\ op = "init"
    /\ op' = "SpatialFeatures._calculate_minimal_toe_clearance"
    /\ out' = calculate_minimal_toe_clearance(trial_events, marker_data[1])
    /\ UNCHANGED <<inputVars, calcVars, created>>

NextClearance == CallMinimalToeClearance

SpecClearance == InitClearance /\ [][NextClearance]_vars

(***************************************************************************)
(* Claims about the minimal toe clearance (checked under SpecClearance)    *)
(***************************************************************************)
\* the swing window of the cycle: the samples from the ipsi foot-off to the end
ClaimWindow ==
    LET fo == CHOOSE t \in TimesOf(WithLabel(IpsiIdx, FOOT_OFF)) : TRUE
        md == marker_data[1]
    IN  SelectSeq([i \in 1..Len(md.time) |-> i], LAMBDA i : md.time[i] >= fo)

\* the averaged toe velocity at window position i, times 2
TwiceToesVel(i) == marker_data[1].speed_2[i] + marker_data[1].speed_5[i]

\* the vertical values of the qualifying local minima of a marker: window
\* samples lower than both neighbours whose averaged toe velocity is at least
\* the median and which are at or below heel height
QualifyingValues(marker_z) ==
    LET w == ClaimWindow
        n == Len(w)
        z == [i \in 1..n |-> marker_z[w[i]]]
        heel == [i \in 1..n |-> marker_data[1].heel[w[i]]]
        atLeastMedian(i) ==
            2 * Cardinality({j \in 1..n : TwiceToesVel(j) <= TwiceToesVel(i)}) >= n + 1
    IN  {z[i] : i \in {i \in 2..(n - 1) :
                          /\ z[i] < z[i - 1] /\ z[i] < z[i + 1]
                          /\ atLeastMedian(i)
                          /\ z[i] <= heel[i]}}

C10_WitnessNone ==
    /\ op = "SpatialFeatures._calculate_minimal_toe_clearance"
    /\ QualifyingValues(marker_data[1].meta_2) = {}
    /\ QualifyingValues(marker_data[1].meta_5) = {}
    /\ out.kind = "return"
    /\ out.value = NaN

(***************************************************************************)
(* Specification of the temporal calculator on chronological cycles: the   *)
(* five events of a gait cycle in time order, at any times of              *)
(* 0..MaxStride                                                            *)
(***************************************************************************)
ChronologicalTimes ==
    {t \in [1..5 -> 0..MaxStride] : \A i \in 1..4 : t[i] <= t[i + 1]}

IsChronologicalCycle(events) ==
    \E ctx \in Contexts, t \in ChronologicalTimes :
        events = Some(Table(ctx, 0, CycleRows(ctx, t[1], t[2], t[3], t[4], t[5])))

InitTemporal ==
    /\ op = "init"
    /\ IsChronologicalCycle(trial_events)
    /\ analysis = None
    /\ marker_data = None
    /\ out = NotRun
    /\ trial_cycles = <<>>
    /\ pc = "idle"
    /\ ci = 0
    /\ ki = 0
    /\ results = <<>>
    /\ context_dim = <<>>
    /\ context_results = <<>>
    /\ cycle_dim = <<>>
    /\ created = <<>>

NextTemporal == CallTemporalCalculate

SpecTemporal == InitTemporal /\ [][NextTemporal]_vars

(***************************************************************************)
(* Claims about TemporalFeatures (checked under SpecTemporal)              *)
(***************************************************************************)
\* the entry of the result labelled `name`
Feature(name) == out.value.data[IndexOf(out.value.feature, name)]

\* the product of two numbers, exact
Mul(a, b) == <<a[1] * b[1], a[2] * b[2]>>

\* |a - b| <= k * 2^(-MantissaBits) * c, for numbers with positive denominators
WithinRounding(a, b, k, c) ==
    Abs(a[1] * b[2] - b[1] * a[2]) * c[2] * 2^MantissaBits <= k * c[1] * a[2] * b[2]

\* the event times of the cycle, from the table
IpsiFootOffTime == SetMin(TimesOf(WithLabel(IpsiIdx, FOOT_OFF)))
StrideEndTime == SetMax(TimesOf(WithLabel(IpsiIdx, FOOT_STRIKE)))

ValidCycleCalculated ==
    /\ op = "TemporalFeatures._calculate"
    /\ WellFormedCycle
    /\ \A i \in 1..4 : TheTable.rows[i].time <= TheTable.rows[i + 1].time

\* C12 as stated: for every valid cycle, cadence = 60 / (stride_time / 2) and
\* cadence * stride_time = 120, where stride_time is the total duration that
\* foot_off, opposite_foot_off and opposite_foot_contact are divided by.
C12_CadenceTimesStrideIs120 ==
    ValidCycleCalculated =>
        /\ out.kind = "return"
        /\ Feature("stride_time") = Float(StrideEndTime)
        /\ Feature("cadence") = FloatDiv(Float(60), FloatDiv(Feature("stride_time"), Float(2)))
        /\ SameNumber(Mul(Feature("cadence"), Feature("stride_time")), Num(120))

\* C12 amended: for every valid cycle, stride_time is the stride end time t4
\* that foot_off is divided by, and cadence is the float quotient
\* 60 / (stride_time / 2).  With a non-zero stride_time, cadence * stride_time
\* is 120 up to the rounding of that quotient (a relative 2^(-MantissaBits)),
\* and exactly 120 where 120 / stride_time is a float; with stride_time = 0,
\* cadence is inf and the product is not 120.  In exact arithmetic the formula
\* gives 100 at a stride_time of 1.2.
C12_CadenceIsRounded120OverStride ==
    ValidCycleCalculated =>
        /\ out.kind = "return"
        /\ Feature("stride_time") = Float(StrideEndTime)
        /\ Feature("foot_off") = FloatDiv(Float(IpsiFootOffTime), Feature("stride_time"))
        /\ Feature("cadence") = FloatDiv(Float(60), FloatDiv(Feature("stride_time"), Float(2)))
        /\ IF StrideEndTime = 0
           THEN Feature("cadence")[2] = 0 /\ Feature("cadence")[1] > 0
           ELSE /\ WithinRounding(Mul(Feature("cadence"), Feature("stride_time")),
                                  Num(120), 1, Num(120))
                /\ (120 % StrideEndTime = 0) =>
                       Feature("cadence") = Num(120 \div StrideEndTime)
        /\ SameNumber(Div(Num(60), Div(<<12, 10>>, Num(2))), Num(100))

\* a stride of 5 time units: 24 steps per minute
C12_Witness ==
    /\ ValidCycleCalculated
    /\ StrideEndTime = 5
    /\ Feature("stride_time") = Num(5)
    /\ Feature("cadence") = Num(24)

\* a cycle whose events are all at time 0
C12_WitnessZeroStride ==
    /\ ValidCycleCalculated
    /\ StrideEndTime = 0
    /\ Feature("cadence")[2] = 0

\* C17 as stated: for every valid cycle with a non-zero stride end time,
\* double_support + single_support equals foot_off exactly (as the float sum of
\* the two entries or as their exact sum), and the sum lies between 0 and 1
\* when ipsi_fo <= ipsi_fs_end.
C17_SupportsSumIsFootOff ==
    (ValidCycleCalculated /\ StrideEndTime # 0) =>
        LET sum == FloatAdd(Feature("double_support"), Feature("single_support"))
            exact == Add(Feature("double_support"), Feature("single_support"))
        IN  /\ sum = Feature("foot_off") \/ SameNumber(exact, Feature("foot_off"))
            /\ sum[1] >= 0
            /\ sum[1] <= sum[2]

\* C17 amended: for every valid cycle with a non-zero stride end time,
\* double_support + single_support equals foot_off up to the rounding of the
\* float operations (a difference of at most 6 * 2^(-MantissaBits) of
\* foot_off; the contra terms cancel in exact arithmetic only), the sum is
\* never negative and exceeds 1 by no more than that rounding.
C17_SupportsSumIsFootOffUpToRounding ==
    (ValidCycleCalculated /\ StrideEndTime # 0) =>
        LET sum == FloatAdd(Feature("double_support"), Feature("single_support"))
        IN  /\ out.kind = "return"
            /\ sum[2] > 0
            /\ Feature("foot_off")[2] > 0
            /\ WithinRounding(sum, Feature("foot_off"), 6, Feature("foot_off"))
            /\ sum[1] >= 0
            /\ WithinRounding(sum, Num(1), 6, Num(1)) \/ sum[1] <= sum[2]

\* the sum of the two supports is not foot_off, but within the rounding of it
C17_Witness ==
    /\ ValidCycleCalculated
    /\ StrideEndTime # 0
    /\ FloatAdd(Feature("double_support"), Feature("single_support")) # Feature("foot_off")
    /\ ~SameNumber(Add(Feature("double_support"), Feature("single_support")),
                   Feature("foot_off"))
    /\ WithinRounding(FloatAdd(Feature("double_support"), Feature("single_support")),
                      Feature("foot_off"), 6, Feature("foot_off"))

\* the contra events are strictly inside the cycle and the sum is foot_off
C17_WitnessEqual ==
    /\ ValidCycleCalculated
    /\ StrideEndTime = 4
    /\ Feature("double_support") = <<1, 2>>
    /\ Feature("single_support") = <<1, 4>>
    /\ Feature("foot_off") = <<3, 4>>

(***************************************************************************)
(* Claims about the time series features (checked under SpecSeries)        *)
(***************************************************************************)
\* the entry of the flattened result labelled "{channel}_{feature}"
ChannelFeature(channel, feature) ==
    out.value.data[IndexOf(out.value.feature, channel \o "_" \o feature)]

\* C13: for every channel of a cycle with finite samples, the result holds
\* the labels "{channel}_amplitude", "{channel}_max" and "{channel}_min", and
\* the entry labelled "{channel}_amplitude" equals the entry labelled
\* "{channel}_max" minus the entry labelled "{channel}_min" (the float
\* difference, which is also the difference of the channel's largest and
\* smallest sample).
C13_AmplitudeIsMaxMinusMin ==
    (op = "TimeSeriesFeatures._calculate") =>
        /\ out.kind = "return"
        /\ \A c \in 1..Len(analysis[1].channel) :
              LET channel == analysis[1].channel[c]
              IN  /\ \A f \in {"amplitude", "max", "min"} :
                        channel \o "_" \o f \in SeqToSet(out.value.feature)
                  /\ ChannelFeature(channel, "amplitude")
                        = FloatSub(ChannelFeature(channel, "max"),
                                   ChannelFeature(channel, "min"))
                  /\ ChannelFeature(channel, "amplitude")
                        = Float(MaxSeq(analysis[1].data[c]) - MinSeq(analysis[1].data[c]))

\* two channels, of different amplitudes, the first with a non-zero minimum
C13_Witness ==
    /\ op = "TimeSeriesFeatures._calculate"
    /\ analysis[1].channel = <<"a", "a_min">>
    /\ ChannelFeature("a", "min") = Num(1)
    /\ ChannelFeature("a", "max") = Num(2)
    /\ ChannelFeature("a", "amplitude") = Num(1)
    /\ ChannelFeature("a_min", "amplitude") = Num(2)

(***************************************************************************)
(* Specification of the phase calculator on cycles of every length, every  *)
(* channel list and every foot-off time, with one series of samples each   *)
(***************************************************************************)
IsSplitInput(events, data, markers) ==
    \E ctx \in Contexts, channels \in ChannelLists, n \in 1..MaxSamples :
        /\ data = Some(Analysis(ctx, channels, n,
                                [c \in 1..Len(channels) |->
                                    [i \in 1..n |-> (c + i) % (MaxValue + 1)]]))
        /\ markers = Some(MarkerSeries(ctx, n))
        /\ \E fo \in 0..(6 * (n - 1)) :
               events = Some(Table(ctx, 0, CycleRows(ctx, 0, 0, 6 * (n - 1), fo,
                                                     6 * (n - 1))))

InitSplit ==
    /\ op = "init"
    /\ IsSplitInput(trial_events, analysis, marker_data)
    /\ out = NotRun
    /\ trial_cycles = <<>>
    /\ pc = "idle"
    /\ ci = 0
    /\ ki = 0
    /\ results = <<>>
    /\ context_dim = <<>>
    /\ context_results = <<>>
    /\ cycle_dim = <<>>
    /\ created = <<>>

NextSplit == CallPhaseCalculate

SpecSplit == InitSplit /\ [][NextSplit]_vars

(***************************************************************************)
(* Claims about the phase split (checked under SpecSplit)                  *)
(***************************************************************************)
\* a time rounded to 4 decimals: the nearest multiple of 3 time units
RoundedTo4Decimals(t) ==
    CHOOSE r \in {3 * k : k \in 0..((t \div 3) + 1)} :
        \A q \in {3 * k : k \in 0..((t \div 3) + 1)} : Abs(t - r) <= Abs(t - q)

\* the samples of an array: its <<time, values of the channels>> pairs
Samples(array) ==
    {<<array.time[i], [c \in 1..Len(array.channel) |-> array.data[c][i]]>> :
        i \in 1..Len(array.time)}

\* the data categories of the cycle, as the call was given them
InputCategories == CycleTrial(trial_events, analysis, marker_data).data

CycleStart == analysis[1].time[1]
CycleEnd == analysis[1].time[Len(analysis[1].time)]

\* category j of a phase trial holds exactly the samples of category j of the
\* cycle timed lo <= time <= hi, once each, with the same channels
HoldsExactly(phase_trial, j, lo, hi) ==
    LET phase == phase_trial.data[j]
        cycle == InputCategories[j]
        expected == {s \in Samples(cycle.array) : lo <= s[1] /\ s[1] <= hi}
    IN  /\ phase.category = cycle.category
        /\ phase.array.channel = cycle.array.channel
        /\ Samples(phase.array) = expected
        /\ Len(phase.array.time) = Cardinality(expected)

RECURSIVE GCD(_, _)
GCD(a, b) == IF b = 0 THEN a ELSE GCD(b, a % b)

Reduced(q) ==
    IF q[2] = 0 THEN q
    ELSE LET g == GCD(Abs(q[1]), Abs(q[2]))
             sign == IF q[2] < 0 THEN -1 ELSE 1
         IN  <<(sign * q[1]) \div g, (sign * q[2]) \div g>>

\* the square root of a fraction that is a square
ISqrt(n) == CHOOSE r \in 0..n : r * r = n
ExactSqrt(q) == <<ISqrt(Reduced(q)[1]), ISqrt(Reduced(q)[2])>>

\* vectors (x, y, z) of fractions
Vec(p) == [k \in 1..3 |-> Num(p[k])]
Dot(a, b) == Reduced(Add(Add(Mul(a[1], b[1]), Mul(a[2], b[2])), Mul(a[3], b[3])))
Scaled(q, v) == [k \in 1..3 |-> Reduced(Mul(q, v[k]))]
Minus(a, b) == [k \in 1..3 |-> Reduced(Sub(a[k], b[k]))]
Length(v) == ExactSqrt(Dot(v, v))

\* linalg.normalize_vector: the vector divided by its length
normalize_vector(v) == [k \in 1..3 |-> Reduced(Div(v[k], Length(v)))]

\* linalg.project_point_on_vector: the orthogonal projection of the point on
\* the line through the origin along the vector
project_point_on_vector(point, vector) ==
    Scaled(Div(Dot(point, vector), Dot(vector, vector)), vector)

\* linalg.calculate_distance: the Euclidean distance of two points
calculate_distance(a, b) == Length(Minus(a, b))

\* linalg.get_normal_vector: a vector orthogonal to both (the cross product)
get_normal_vector(a, b) ==
    <<Reduced(Sub(Mul(a[2], b[3]), Mul(a[3], b[2]))),
      Reduced(Sub(Mul(a[3], b[1]), Mul(a[1], b[3]))),
      Reduced(Sub(Mul(a[1], b[2]), Mul(a[2], b[1])))>>

\* mapping.MappedMarkers
L_META_2 == "L_META_2"
R_META_2 == "R_META_2"
L_ANKLE == "L_ANKLE"
R_ANKLE == "R_ANKLE"
XCOM == "XCOM"
MarkerNames == {L_META_2, R_META_2, L_ANKLE, R_ANKLE, XCOM}

\* mocap.get_marker_data: the trajectory of a marker, dims (axis, time)
get_marker_data(md, marker) == [time |-> md.time, position |-> md.markers[marker]]

\* mocap.get_progression_vector
get_progression_vector(md) == Vec(md.progression)

\* _PointDependentFeature._get_sagittal_vector
get_sagittal_vector(md) ==
    LET progression_vector == get_progression_vector(md)
        vertical_vector == Vec(<<0, 0, 1>>)
    IN  get_normal_vector(progression_vector, vertical_vector)

\* data.sel(time=t, method="nearest"): the sample whose time is nearest to t,
\* the later one of two equally near
SelNearest(data, t) ==
    LET i == CHOOSE i \in 1..Len(data.time) :
                \A j \in 1..Len(data.time) :
                    \/ Abs(data.time[i] - t) < Abs(data.time[j] - t)
                    \/ (Abs(data.time[i] - t) = Abs(data.time[j] - t) /\ j <= i)
    IN  Vec(data.position[i])

\* SpatialFeatures._calculate_step_length
calculate_step_length_at_start(events, md, ipsi_marker, contra_marker) ==
    LET event_times == get_event_times(events)
    IN  IF event_times.kind = "raise" THEN event_times
        ELSE
        LET ipsi_heel == SelNearest(get_marker_data(md, ipsi_marker), event_times.value[1])
            contra_heel == SelNearest(get_marker_data(md, contra_marker), event_times.value[1])
            progress_axis == normalize_vector(get_progression_vector(md))
            projected_ipsi == project_point_on_vector(ipsi_heel, progress_axis)
            projected_contra == project_point_on_vector(contra_heel, progress_axis)
            distance == calculate_distance(projected_ipsi, projected_contra)
        IN  Return(<<(<<"step_length", distance>>)>>)
calculate_step_length(events, md, ipsi_marker, contra_marker) ==
    LET event_times == get_event_times(events)
    IN  IF event_times.kind = "raise" THEN event_times
        ELSE
        LET ipsi_heel == SelNearest(get_marker_data(md, ipsi_marker), event_times.value[5])
            contra_heel == SelNearest(get_marker_data(md, contra_marker), event_times.value[5])
            progress_axis == normalize_vector(get_progression_vector(md))
            projected_ipsi == project_point_on_vector(ipsi_heel, progress_axis)
            projected_contra == project_point_on_vector(contra_heel, progress_axis)
            distance == calculate_distance(projected_ipsi, projected_contra)
        IN  Return(<<(<<"step_length", distance>>)>>)

\* mos = bos_len - xcom_len
margin_reversed(bos_len, xcom_len) == Reduced(Sub(xcom_len, bos_len))
margin(bos_len, xcom_len) == Reduced(Sub(bos_len, xcom_len))

\* SpatialFeatures._calculate_AP_margin_of_stability
calculate_AP_margin_of_stability(events, md, ipsi_toe_marker, contra_toe_marker, xcom_marker) ==
    LET event_times == get_event_times(events)
    IN  IF event_times.kind = "raise" THEN event_times
        ELSE
        LET ipsi_toe == SelNearest(get_marker_data(md, ipsi_toe_marker), event_times.value[1])
            contra_toe ==
                SelNearest(get_marker_data(md, contra_toe_marker), event_times.value[1])
            xcom == SelNearest(get_marker_data(md, xcom_marker), event_times.value[1])
            progress_axis == normalize_vector(get_progression_vector(md))
            projected_ipsi == project_point_on_vector(ipsi_toe, progress_axis)
            projected_contra == project_point_on_vector(contra_toe, progress_axis)
            projected_xcom == project_point_on_vector(xcom, progress_axis)
            bos_len == calculate_distance(projected_ipsi, projected_contra)
            xcom_len == calculate_distance(projected_contra, projected_xcom)
            mos == margin(bos_len, xcom_len)
        IN  Return(<<(<<"AP_margin_of_stability", mos>>)>>)

\* SpatialFeatures._calculate_ML_margin_of_stability
calculate_ML_margin_of_stability(events, md, ipsi_ankle_marker, contra_ankle_marker, xcom_marker) ==
    LET event_times == get_event_times(events)
    IN  IF event_times.kind = "raise" THEN event_times
        ELSE
        LET ipsi_ankle ==
                SelNearest(get_marker_data(md, ipsi_ankle_marker), event_times.value[1])
            contra_ankle ==
                SelNearest(get_marker_data(md, contra_ankle_marker), event_times.value[1])
            xcom == SelNearest(get_marker_data(md, xcom_marker), event_times.value[1])
            sagittal_axis == normalize_vector(get_sagittal_vector(md))
            projected_ipsi == project_point_on_vector(ipsi_ankle, sagittal_axis)
            projected_contra == project_point_on_vector(contra_ankle, sagittal_axis)
            projected_xcom == project_point_on_vector(xcom, sagittal_axis)
            bos_len == calculate_distance(projected_contra, projected_ipsi)
            xcom_len == calculate_distance(projected_contra, projected_xcom)
            mos == margin(bos_len, xcom_len)
        IN  Return(<<(<<"ML_margin_of_stability", mos>>)>>)

\* The markers SpatialFeatures._calculate picks for the context of the cycle
SpatialMarkers(context) ==
    IF context = "Right"
    THEN [ipsi_meta_2_marker |-> R_META_2, ipsi_ankle_marker |-> R_ANKLE,
          contra_meta_2_marker |-> L_META_2, contra_ankle_marker |-> L_ANKLE,
          xcom_marker |-> XCOM]
    ELSE [ipsi_meta_2_marker |-> L_META_2, ipsi_ankle_marker |-> L_ANKLE,
          contra_meta_2_marker |-> R_META_2, contra_ankle_marker |-> R_ANKLE,
          xcom_marker |-> XCOM]

(***************************************************************************)
(* Specification of the spatial features: a chronological cycle whose      *)
(* markers are sampled at the times 0, 3 and 6.  The cycle starts at 0 or  *)
(* 1 and ends at 4, 5 or 6, so that the events fall on a sample or between *)
(* two samples; every marker moves between the samples.                    *)
(***************************************************************************)
SampleTimes == <<0, 3, 6>>

\* the positions of a marker that reaches `last` at the last sample and
\* moves by `step` from one sample to the next
Trajectory(last, step) ==
    [i \in 1..Len(SampleTimes) |->
        [k \in 1..3 |-> last[k] - (Len(SampleTimes) - i) * step[k]]]

\* progression vectors: along an axis, and oblique ones of rational length
ProgressionVectors ==
    {<<1, 0, 0>>, <<0, -1, 0>>, <<2, 0, 0>>, <<3, 4, 0>>, <<4, 3, 0>>, <<0, 3, 4>>}

IsSpatialInput(events, md) ==
    \E ctx \in Contexts, t0 \in 0..1, t4 \in 4..6, v \in ProgressionVectors :
    \E lx \in 0..MaxValue, ly \in 0..1, rx \in 0..MaxValue, ry \in 0..1 :
    \E cx \in 0..MaxValue, cy \in 0..1 :
        /\ events = Some(Table(ctx, 0, CycleRows(ctx, t0, t0, 2, 3, t4)))
        /\ md = Some([time |-> SampleTimes,
                      markers |->
                          [m \in MarkerNames |->
                              CASE m = L_META_2 -> Trajectory(<<lx, ly, 0>>, <<1, 0, 0>>)
                                [] m = R_META_2 -> Trajectory(<<rx, ry, 0>>, <<0, 1, 0>>)
                                [] m = L_ANKLE -> Trajectory(<<lx, ly + 1, 1>>, <<1, 1, 0>>)
                                [] m = R_ANKLE -> Trajectory(<<rx + 1, ry, 1>>, <<0, 1, 1>>)
                                [] m = XCOM -> Trajectory(<<cx, cy, 2>>, <<1, 0, 1>>)],
                      progression |-> v])

InitSpatial ==
    /\ op = "init"
    /\ IsSpatialInput(trial_events, marker_data)
    /\ analysis = None
    /\ out = NotRun
    /\ trial_cycles = <<>>
    /\ pc = "idle"
    /\ ci = 0
    /\ ki = 0
    /\ results = <<>>
    /\ context_dim = <<>>
    /\ context_results = <<>>
    /\ cycle_dim = <<>>
    /\ created = <<>>

\* the calls of SpatialFeatures._calculate, with the markers it passes
CallStepLength ==
    /\ op = "init"
    /\ op' = "SpatialFeatures._calculate_step_length"
    /\ LET m == SpatialMarkers(trial_events[1].context)
       IN  out' = calculate_step_length(trial_events, marker_data[1],
                                        m.ipsi_meta_2_marker, m.contra_meta_2_marker)
    /\ UNCHANGED <<inputVars, calcVars, created>>

CallAPMargin ==
    /\ op = "init"
    /\ op' = "SpatialFeatures._calculate_AP_margin_of_stability"
    /\ LET m == SpatialMarkers(trial_events[1].context)
       IN  out' = calculate_AP_margin_of_stability(trial_events, marker_data[1],
                      m.ipsi_meta_2_marker, m.contra_meta_2_marker, m.xcom_marker)
    /\ UNCHANGED <<inputVars, calcVars, created>>

CallMLMargin ==
    /\ op = "init"
    /\ op' = "SpatialFeatures._calculate_ML_margin_of_stability"
    /\ LET m == SpatialMarkers(trial_events[1].context)
       IN  out' = calculate_ML_margin_of_stability(trial_events, marker_data[1],
                      m.ipsi_ankle_marker, m.contra_ankle_marker, m.xcom_marker)
    /\ UNCHANGED <<inputVars, calcVars, created>>

NextSpatial == CallStepLength \/ CallAPMargin \/ CallMLMargin

SpecSpatial == InitSpatial /\ [][NextSpatial]_vars

(***************************************************************************)
(* Claims about SpatialFeatures (checked under SpecSpatial)                *)
(***************************************************************************)
\* the markers of the cycle's side and of the other side
IpsiMarker(left, right) == IF TheTable.context = "Left" THEN left ELSE right
ContraMarker(left, right) == IF TheTable.context = "Left" THEN right ELSE left

\* the sample nearest to time t, and the position of a marker there
NearestSample(t) ==
    CHOOSE i \in 1..Len(marker_data[1].time) :
        \A j \in 1..Len(marker_data[1].time) :
            j # i => Abs(marker_data[1].time[i] - t) < Abs(marker_data[1].time[j] - t)
PositionAt(marker, t) == marker_data[1].markers[marker][NearestSample(t)]

CycleStartTime == SetMin(TimesOf(WithLabel(IpsiIdx, FOOT_STRIKE)))

\* scalar product of two vectors of integers; the vector along axis k
IntDot(a, b) == a[1] * b[1] + a[2] * b[2] + a[3] * b[3]
IsUnitAlong(v, k) == Abs(v[k]) = 1 /\ \A j \in 1..3 : j # k => v[j] = 0

\* the only entry of a returned dict
OnlyEntry(name) == IF Len(out.value) = 1 /\ out.value[1][1] = name
                   THEN Some(out.value[1][2]) ELSE None

\* C11: for a valid cycle step_length is the distance between the projections
\* of the ipsi and the contra marker (second metatarsal), sampled at the final
\* event time, onto the normalized progression vector: |(a - b) . v| / |v|.
\* With ipsi (0,0,0), contra (1,0,0) and progression (1,0,0) it is exactly 1;
\* for an axis-aligned unit progression vector it is the absolute difference
\* of the two markers' coordinates on that axis.
C11_StepLengthIsProjectedDistance ==
    (op = "SpatialFeatures._calculate_step_length" /\ WellFormedCycle) =>
        LET a == PositionAt(IpsiMarker(L_META_2, R_META_2), StrideEndTime)
            b == PositionAt(ContraMarker(L_META_2, R_META_2), StrideEndTime)
            v == marker_data[1].progression
            along == IntDot(a, v) - IntDot(b, v)
        IN  /\ out.kind = "return"
            /\ OnlyEntry("step_length") # None
            /\ LET step_length == OnlyEntry("step_length")[1]
               IN  /\ step_length[2] > 0
                   /\ step_length[1] >= 0
                   /\ step_length[1] * step_length[1] * IntDot(v, v)
                        = along * along * step_length[2] * step_length[2]
                   /\ \A k \in 1..3 :
                        IsUnitAlong(v, k) =>
                            SameNumber(step_length, Num(Abs(a[k] - b[k])))
                   /\ (a = <<0, 0, 0>> /\ b = <<1, 0, 0>> /\ v = <<1, 0, 0>>)
                        => step_length = Num(1)

\* a cycle ending between two samples, with the markers of the example
C11_Witness ==
    /\ op = "SpatialFeatures._calculate_step_length"
    /\ WellFormedCycle
    /\ StrideEndTime = 5
    /\ PositionAt(IpsiMarker(L_META_2, R_META_2), StrideEndTime) = <<0, 0, 0>>
    /\ PositionAt(ContraMarker(L_META_2, R_META_2), StrideEndTime) = <<1, 0, 0>>
    /\ PositionAt(ContraMarker(L_META_2, R_META_2), CycleStartTime) # <<1, 0, 0>>
    /\ marker_data[1].progression = <<1, 0, 0>>
    /\ out = Return(<<(<<"step_length", Num(1)>>)>>)

\* an oblique progression vector: the step is shorter than the distance
C11_WitnessOblique ==
    /\ op = "SpatialFeatures._calculate_step_length"
    /\ marker_data[1].progression = <<3, 4, 0>>
    /\ out.kind = "return"
    /\ SameNumber(out.value[1][2], <<3, 5>>)

\* the margin that the claim describes, for the markers a (ipsi), b (contra)
\* and x (XCOM) projected on the axis v: (|(a - b) . v| - |(b - x) . v|) / |v|
BaseOfSupport(a, b, v) == <<Abs(IntDot(a, v) - IntDot(b, v)), ISqrt(IntDot(v, v))>>
XcomDistance(b, x, v) == <<Abs(IntDot(b, v) - IntDot(x, v)), ISqrt(IntDot(v, v))>>
IsMargin(mos, a, b, x, v) ==
    /\ mos[2] > 0
    /\ SameNumber(mos, Sub(BaseOfSupport(a, b, v), XcomDistance(b, x, v)))
    \* positive exactly when the projected XCOM is nearer to the projected
    \* contra marker than the projected ipsi marker is
    /\ (mos[1] > 0) <=>
            (XcomDistance(b, x, v)[1] < BaseOfSupport(a, b, v)[1])
    \* never more than the base of support
    /\ Geq(BaseOfSupport(a, b, v), mos)

\* the normal of the sagittal plane: orthogonal to progression and vertical
SagittalOf(v) == <<v[2], -v[1], 0>>

\* C16: the AP margin of stability (second-metatarsal markers, progression
\* vector) and the ML margin (ankle markers, sagittal vector) are
\* distance(proj ipsi, proj contra) - distance(proj contra, proj XCOM), all
\* three markers sampled at the cycle-start event time; the margin is
\* positive exactly when the projected XCOM is closer to the projected contra
\* marker than the projected ipsi marker is, and never exceeds the
\* base-of-support length.
C16_MarginsOfStability ==
    /\ (op = "SpatialFeatures._calculate_AP_margin_of_stability" /\ WellFormedCycle) =>
        /\ out.kind = "return"
        /\ OnlyEntry("AP_margin_of_stability") # None
        /\ IsMargin(OnlyEntry("AP_margin_of_stability")[1],
                    PositionAt(IpsiMarker(L_META_2, R_META_2), CycleStartTime),
                    PositionAt(ContraMarker(L_META_2, R_META_2), CycleStartTime),
                    PositionAt(XCOM, CycleStartTime),
                    marker_data[1].progression)
    /\ (op = "SpatialFeatures._calculate_ML_margin_of_stability" /\ WellFormedCycle) =>
        /\ out.kind = "return"
        /\ OnlyEntry("ML_margin_of_stability") # None
        /\ IsMargin(OnlyEntry("ML_margin_of_stability")[1],
                    PositionAt(IpsiMarker(L_ANKLE, R_ANKLE), CycleStartTime),
                    PositionAt(ContraMarker(L_ANKLE, R_ANKLE), CycleStartTime),
                    PositionAt(XCOM, CycleStartTime),
                    SagittalOf(marker_data[1].progression))

\* a positive AP margin on an oblique progression vector, the cycle starting
\* between two samples
C16_Witness ==
    /\ op = "SpatialFeatures._calculate_AP_margin_of_stability"
    /\ WellFormedCycle
    /\ CycleStartTime = 1
    /\ marker_data[1].progression = <<3, 4, 0>>
    /\ out.kind = "return"
    /\ out.value[1][2][1] > 0
    /\ PositionAt(XCOM, CycleStartTime) # PositionAt(XCOM, StrideEndTime)

\* a negative ML margin: the XCOM projects outside the base of support
C16_WitnessNegativeML ==
    /\ op = "SpatialFeatures._calculate_ML_margin_of_stability"
    /\ WellFormedCycle
    /\ out.kind = "return"
    /\ out.value[1][2][1] < 0

(***************************************************************************)
(* _CycleFeaturesCalculation.calculate and the objects it is given         *)
(*                                                                         *)
(* Every cycle of trial_cycles is a Trial object [cycle_id, events, data]. *)
(* The per-cycle calculation runs on the store of that object; what the    *)
(* run leaves in the object is written back to trial_cycles, and the       *)
(* trials it created are appended to `created`.                            *)
(***************************************************************************)
Calculators == {"TemporalFeatures", "TimeSeriesFeatures", "PhaseTimeSeriesFeatures"}

\* self._calculate(cycle) of the calculator whose calculate is running: the
\* outcome and the store after the call.  TemporalFeatures reads trial.events
\* and TimeSeriesFeatures reads trial.get_data(ANALYSIS); neither writes.
RunCalculate(calculate, trial) ==
    CASE calculate = "TemporalFeatures.calculate" ->
            [outcome |-> TemporalCalculate(trial.events), store |-> Store(trial)]
      [] calculate = "TimeSeriesFeatures.calculate" ->
            [outcome |-> TimeSeriesCalculate(Some(get_data(trial, ANALYSIS))),
             store |-> Store(trial)]
      [] calculate = "PhaseTimeSeriesFeatures.calculate" ->
            PhaseCalculate(Store(trial))

\* the Trial object of a cycle, and the cycle mapping with that object as the
\* run has left it
TrialOf(cycle) == [events |-> cycle.events, data |-> cycle.data]
WithTrial(cycles, c, k, trial) ==
    [cycles EXCEPT ![c].cycles[k].events = trial.events,
                   ![c].cycles[k].data = trial.data]

\* Entry of calculate of one of the calculators
FrameStart(calculator) ==
    /\ pc = "idle"
    /\ op = "init"
    /\ op' = calculator \o ".calculate"
    /\ results' = <<>>
    /\ context_dim' = <<>>
    /\ ci' = 1
    /\ pc' = "contexts"
    /\ UNCHANGED <<inputVars, out, trial_cycles, ki, context_results, cycle_dim, created>>

\* Inner loop body when _calculate returns
FrameCycle ==
    /\ pc = "cycles"
    /\ ki <= Len(ContextItem(ci).cycles)
    /\ LET run == RunCalculate(op, TrialOf(CycleItem(ci, ki)))
       IN  /\ run.outcome.kind = "return"
           /\ context_results' = Append(context_results, run.outcome.value)
           /\ trial_cycles' = WithTrial(trial_cycles, ci, ki, run.store.trial)
           /\ created' = created \o run.store.created
    /\ cycle_dim' = Append(cycle_dim, CycleItem(ci, ki).cycle_id)
    /\ ki' = ki + 1
    /\ UNCHANGED <<op, inputVars, out, pc, ci, results, context_dim>>

\* Inner loop body when _calculate raises
FrameCycleRaises ==
    /\ pc = "cycles"
    /\ ki <= Len(ContextItem(ci).cycles)
    /\ LET run == RunCalculate(op, TrialOf(CycleItem(ci, ki)))
       IN  /\ run.outcome.kind = "raise"
           /\ out' = run.outcome
           /\ trial_cycles' = WithTrial(trial_cycles, ci, ki, run.store.trial)
           /\ created' = created \o run.store.created
    /\ pc' = "raised"
    /\ results' = <<>>
    /\ context_dim' = <<>>
    /\ context_results' = <<>>
    /\ cycle_dim' = <<>>
    /\ UNCHANGED <<op, inputVars, ci, ki>>

\* The cycle `cycle_id` of a context: analysis data of MaxSamples samples and
\* marker data over the same span; with no event table (fo = <<>>) or with the
\* five events of the cycle, the ipsi foot-off at the time fo[1]
FrameCycleOf(ctx, cycle_id, fo) ==
    LET end_time == 6 * (MaxSamples - 1)
        a == Analysis(ctx, <<"a">>, MaxSamples,
                      <<[i \in 1..MaxSamples |-> (cycle_id + i) % (MaxValue + 1)]>>)
    IN  [cycle_id |-> cycle_id,
         events |-> IF fo = None THEN None
                    ELSE Some(Table(ctx, cycle_id,
                                    CycleRows(ctx, 0, 0, end_time, fo[1], end_time))),
         data |-> <<DataItem(ANALYSIS, a), DataItem(MARKERS, MarkerSeries(ctx, MaxSamples))>>]

FootOffChoices == {None, Some(0), Some(6), Some(6 * (MaxSamples - 1))}

FrameCycleMappings(ctx) ==
    UNION { { [i \in 1..Len(ids) |-> FrameCycleOf(ctx, ids[i], fo[i])] :
              fo \in [1..Len(ids) -> FootOffChoices] } :
            ids \in {<<0>>, <<1, 0>>} }

IsFrameInput(tc) ==
    \/ \E ctx \in Contexts : \E m \in FrameCycleMappings(ctx) :
            tc = <<ContextCycles(ctx, m)>>
    \/ \E ctx \in Contexts :
            \E m1 \in FrameCycleMappings(ctx), m2 \in FrameCycleMappings(OtherContext(ctx)) :
                tc = <<ContextCycles(ctx, m1), ContextCycles(OtherContext(ctx), m2)>>

InitFrame ==
    /\ op = "init"
    /\ trial_events = None
    /\ analysis = None
    /\ marker_data = None
    /\ out = NotRun
    /\ IsFrameInput(trial_cycles)
    /\ pc = "idle"
    /\ ci = 0
    /\ ki = 0
    /\ results = <<>>
    /\ context_dim = <<>>
    /\ context_results = <<>>
    /\ cycle_dim = <<>>
    /\ created = <<>>

NextFrame ==
    \/ \E calculator \in Calculators : FrameStart(calculator)
    \/ CalcContextBegin
    \/ FrameCycle
    \/ FrameCycleRaises
    \/ CalcContextEnd
    \/ CalcReturn

SpecFrame == InitFrame /\ [][NextFrame]_vars

(***************************************************************************)
(* Claims about the objects calculate is given (checked under SpecFrame)   *)
(***************************************************************************)
Categories(trial) == [i \in 1..Len(trial.data) |-> trial.data[i].category]

\* the trial holds, for every data category of the cycle, samples of the cycle
IsPhaseOf(trial, cycle) ==
    /\ trial.events = None
    /\ Categories(trial) = Categories(cycle)
    /\ \A i \in 1..Len(trial.data) :
          /\ SeqToSet(trial.data[i].array.time) \subseteq SeqToSet(cycle.data[i].array.time)
          /\ trial.data[i].array.channel = cycle.data[i].array.channel

C15_WitnessFails ==
    /\ op = "PhaseTimeSeriesFeatures.calculate"
    /\ pc = "raised"
    /\ out.kind = "raise"
    /\ Len(created) = 2
    /\ CycleItem(1, 1).events # None

====
